---- MODULE Spec2Model ----
(***************************************************************************)
(* Model of the package-analysis worker (cmd/worker/main.go): the retry    *)
(* supervisor (main), the subscription loop (messageLoop), the per-message *)
(* handler (handleMessage) and the backoff function (retryDelay).          *)
(*                                                                         *)
(* The worker is a single thread of control, so one program counter, pc,   *)
(* walks through main, messageLoop and handleMessage.  Calls into the      *)
(* collaborators (pubsub, blob, pkgecosystem, sandbox, analysis,           *)
(* resultstore) are steps whose outcome (success, error, returned value)   *)
(* is chosen nondeterministically.  Go's defer is modelled by a stack of   *)
(* deferred calls that is unwound, last in first out, when the function    *)
(* returns.                                                                *)
(***************************************************************************)
EXTENDS Integers, Sequences, FiniteSets, TLC

\* ------------------------------------------------------------------------
\* Program constants (main.go:29-35)

maxRetries == 10

retryInterval == 1

\* retryExpRate = 1.5, kept exact as the fraction 3/2
retryExpRateNum == 3

retryExpRateDen == 2

localPkgPathFmt == "/local"

\* ------------------------------------------------------------------------
\* Bounds of the model

\* longest phase list an ecosystem declares
MaxPhases == 3

\* largest failure count the backoff function is applied to
MaxDelayArg == 18

\* ------------------------------------------------------------------------
\* Values

StatusCompleted == "Completed"

StatusErrorAnalysis == "ErrorAnalysis"

StatusErrorTimeout == "ErrorTimeout"

StatusErrorOther == "ErrorOther"

Statuses ==
    {StatusCompleted, StatusErrorAnalysis, StatusErrorTimeout, StatusErrorOther}

\* Names of the phases ecosystems declare, in their declared order.
PhaseNames == <<"install", "import", "execute", "audit", "cleanup">>

\* The phase lists manager.DynamicPhases() may return: ordered, distinct names.
PhaseLists ==
    { SubSeq(PhaseNames, 1, n) : n \in 0 .. (IF MaxPhases < Len(PhaseNames) THEN MaxPhases ELSE Len(PhaseNames)) }

\* Ecosystems for which pkgecosystem.Manager returns a provider.
SupportedEcosystems == {"npm", "pypi"}

\* pkgecosystem.Manager(ecosystem): the provider, or "nil" if unsupported.
Manager(ecosystem) ==
    IF ecosystem \in SupportedEcosystems THEN ecosystem ELSE "nil"

\* Metadata values carried by inbound messages.  A missing key reads as ""
\* from msg.Metadata; package_path is a sequence of path segments, <<>> is "".
Names == {"", "left-pad"}

Ecosystems == {"", "npm", "cobol"}

Versions == {"", "1.0.0"}

PackagePaths == {<<>>, <<"uploads", "pkg.tgz">>}

BucketOverrides == {"", "gs://override"}

Messages ==
    [name : Names, ecosystem : Ecosystems, version : Versions,
     package_path : PackagePaths, results_bucket_override : BucketOverrides]

NoMsg ==
    [name |-> "", ecosystem |-> "", version |-> "", package_path |-> <<>>,
     results_bucket_override |-> ""]

NoPkg == [kind |-> "nil", name |-> "", version |-> "", path |-> <<>>]

\* Environment values read by main (main.go:227-230).
PackagesBucketEnv == {"", "gs://packages"}

ResultsBucketEnv == {"", "gs://results"}

\* path.Base of a non-empty slash-separated path: its last segment.
Base(p) == p[Len(p)]

\* fmt.Sprintf(localPkgPathFmt, path.Base(pkgPath))
LocalPkgPath(p) == <<localPkgPathFmt, Base(p)>>

\* ------------------------------------------------------------------------
\* retryDelay (main.go:261-263)

RECURSIVE IntPow(_, _)
IntPow(b, n) == IF n = 0 THEN 1 ELSE b * IntPow(b, n - 1)

\* math.Pow(retryExpRate, n) for n >= 0 as an exact fraction <<num, den>>
PowRate(n) == <<IntPow(retryExpRateNum, n), IntPow(retryExpRateDen, n)>>

\* math.Floor of a non-negative fraction
Floor(q) == q[1] \div q[2]

\* retryDelay with the growth rate truncated to an integer before the power
retryDelay_IntRate(retryCount) ==
    Floor(<<retryInterval * IntPow(retryExpRateNum \div retryExpRateDen, retryCount), 1>>)

retryDelay(retryCount) ==
    Floor(<<retryInterval * PowRate(retryCount)[1], PowRate(retryCount)[2]>>)

\* ------------------------------------------------------------------------
\* State

VARIABLES
    pc,              \* where the single thread of control stands
    packagesBucket,  \* main: OSSF_MALWARE_ANALYSIS_PACKAGES
    resultsBucket,   \* main: OSSF_MALWARE_ANALYSIS_RESULTS
    retryCount,      \* main: the failure counter
    sleeps,          \* the durations (seconds) main has passed to time.Sleep, oldest first
    loopRuns,        \* how many times main has called messageLoop
    loopFailures,    \* how many times messageLoop has returned an error
    sub,             \* messageLoop: the subscription of this run: "none", "open", "failed"
    pkgsBkt,         \* messageLoop: the packages bucket: "nil", "open", "closed"
    loopErr,         \* what the last messageLoop call returned: "none", "nil", "error"
    handlerErr,      \* messageLoop: what the last handleMessage call of this run returned
    msg,             \* handleMessage: the message's metadata
    acks,            \* how many times msg.Ack() was called on the message being handled
    hResultsBucket,  \* handleMessage: resultsBucket after the override
    reader,          \* handleMessage: r, "none", "open", "closed"
    tmpFile,         \* handleMessage: f, "none", "open", "closed"
    localPkgPath,    \* handleMessage: localPkgPath, <<>> is ""
    sbOpts,          \* handleMessage: the sandbox options
    pkg,             \* handleMessage: the resolved package
    sb,              \* handleMessage: the sandbox, "none", "alive", "cleaned"
    phases,          \* handleMessage: manager.DynamicPhases()
    phaseIdx,        \* handleMessage: index of the next phase of the range loop
    results,         \* handleMessage: the map phase -> status of its result
    finalStatus,     \* handleMessage: finalStatus
    lastPhase,       \* handleMessage: lastPhase
    logged,          \* the final-status log line handleMessage produced, "" if none
    hRet,            \* what handleMessage returned: "none", "nil", "error"
    defers,          \* handleMessage: deferred calls, in the order they were deferred
    events,          \* calls handleMessage made on its collaborators, oldest first
    tempFiles,       \* number of temporary files that exist on disk
    liveSandboxes,   \* number of execution environments that exist
    uploaded,        \* the entries of results in the order the map yielded them to Save
    opened,          \* the stores ("packages", "results") the process has opened a client of
    reopened,        \* the stores the process has opened a client of more than once
    runOpens,        \* messageLoop: times this call has opened the packages bucket
    jobClients,      \* handleMessage: clients of the results store this invocation made
    dA, dB,          \* two failure counts given to retryDelay
    dOut             \* <<retryDelay(dA), retryDelay(dB)>> once computed, else <<>>

mainVars == <<packagesBucket, resultsBucket, retryCount, sleeps, loopRuns>>

loopVars == <<loopFailures, sub, pkgsBkt, loopErr, handlerErr>>

stageVars == <<reader, tmpFile, localPkgPath, sbOpts>>

phaseVars == <<phases, phaseIdx, results, finalStatus, lastPhase, logged>>

handlerVars == <<msg, acks, hResultsBucket, stageVars, pkg, sb, phaseVars, hRet, defers, events>>

worldVars == <<tempFiles, liveSandboxes>>

clientVars == <<opened, reopened, runOpens, jobClients>>

delayVars == <<dA, dB, dOut>>

vars == <<pc, mainVars, loopVars, handlerVars, worldVars, uploaded, clientVars, delayVars>>

\* One call on a collaborator: the operation, its argument, what it returned.
Ev(op, arg, out) == [op |-> op, arg |-> arg, out |-> out]

\* The locals of handleMessage before the call.
NoFrame ==
    /\ msg = NoMsg /\ acks = 0 /\ hResultsBucket = ""
    /\ reader = "none" /\ tmpFile = "none" /\ localPkgPath = <<>> /\ sbOpts = <<>>
    /\ pkg = NoPkg /\ sb = "none"
    /\ phases = <<>> /\ phaseIdx = 0 /\ results = <<>>
    /\ finalStatus = "" /\ lastPhase = "" /\ logged = ""
    /\ hRet = "none" /\ defers = <<>> /\ events = <<>>
    /\ uploaded = <<>>

\* The frame of handleMessage is dropped.
ClearFrame ==
    /\ msg' = NoMsg /\ acks' = 0 /\ hResultsBucket' = ""
    /\ reader' = "none" /\ tmpFile' = "none" /\ localPkgPath' = <<>> /\ sbOpts' = <<>>
    /\ pkg' = NoPkg /\ sb' = "none"
    /\ phases' = <<>> /\ phaseIdx' = 0 /\ results' = <<>>
    /\ finalStatus' = "" /\ lastPhase' = "" /\ logged' = ""
    /\ hRet' = "none" /\ defers' = <<>> /\ events' = <<>>
    /\ uploaded' = <<>> /\ jobClients' = 0

MainInit ==
    /\ pc = "main_call"
    /\ packagesBucket \in PackagesBucketEnv
    /\ resultsBucket \in ResultsBucketEnv
    /\ retryCount = 0
    /\ sleeps = <<>>
    /\ loopRuns = 0
    /\ loopFailures = 0 /\ sub = "none" /\ pkgsBkt = "nil" /\ loopErr = "none"
    /\ handlerErr = "none"
    /\ NoFrame
    /\ tempFiles = 0 /\ liveSandboxes = 0
    /\ opened = {} /\ reopened = {}
    /\ runOpens = 0 /\ jobClients = 0

Init ==
    /\ MainInit
    /\ dA = 0 /\ dB = 0 /\ dOut = <<>>

\* ------------------------------------------------------------------------
\* main (main.go:224-259)

\* main.go:242, the call of messageLoop
MainCallLoop ==
    /\ pc = "main_call"
    /\ pc' = "open_sub"
    /\ loopRuns' = loopRuns + 1
    /\ sub' = "none" /\ pkgsBkt' = "nil" /\ loopErr' = "none" /\ handlerErr' = "none"
    /\ runOpens' = 0
    /\ UNCHANGED <<packagesBucket, resultsBucket, retryCount, sleeps, loopFailures,
                   handlerVars, worldVars, uploaded, opened, reopened, jobClients,
                   delayVars>>

\* main giving up only once the counter exceeds maxRetries
MainLoopReturned_OffByOne ==
    /\ pc = "main_check"
    /\ IF loopErr = "error"
         THEN /\ retryCount' = retryCount + 1
              /\ IF retryCount + 1 > maxRetries
                   THEN pc' = "exit" /\ UNCHANGED sleeps
                   ELSE /\ sleeps' = Append(sleeps, retryDelay(retryCount + 1))
                        /\ pc' = "sleep"
         ELSE pc' = "main_call" /\ UNCHANGED <<retryCount, sleeps>>
    /\ UNCHANGED <<packagesBucket, resultsBucket, loopRuns, loopVars,
                   handlerVars, worldVars, uploaded, clientVars, delayVars>>

\* main computing the delay from the counter before incrementing it
MainLoopReturned_DelayFirst ==
    /\ pc = "main_check"
    /\ IF loopErr = "error"
         THEN /\ retryCount' = retryCount + 1
              /\ IF retryCount + 1 >= maxRetries
                   THEN pc' = "exit" /\ UNCHANGED sleeps
                   ELSE /\ sleeps' = Append(sleeps, retryDelay(retryCount))
                        /\ pc' = "sleep"
         ELSE pc' = "main_call" /\ UNCHANGED <<retryCount, sleeps>>
    /\ UNCHANGED <<packagesBucket, resultsBucket, loopRuns, loopVars,
                   handlerVars, worldVars, uploaded, clientVars, delayVars>>

\* main.go:243-257, what main does with the value messageLoop returned
MainLoopReturned ==
    /\ pc = "main_check"
    /\ IF loopErr = "error"
         THEN /\ retryCount' = retryCount + 1
              /\ IF retryCount + 1 >= maxRetries
                   THEN pc' = "exit" /\ UNCHANGED sleeps
                   ELSE /\ sleeps' = Append(sleeps, retryDelay(retryCount + 1))
                        /\ pc' = "sleep"
         ELSE pc' = "main_call" /\ UNCHANGED <<retryCount, sleeps>>
    /\ UNCHANGED <<packagesBucket, resultsBucket, loopRuns, loopVars,
                   handlerVars, worldVars, uploaded, clientVars, delayVars>>

\* main.go:256, time.Sleep returns
MainWake ==
    /\ pc = "sleep"
    /\ pc' = "main_call"
    /\ UNCHANGED <<mainVars, loopVars, handlerVars, worldVars, uploaded, clientVars, delayVars>>

\* ------------------------------------------------------------------------
\* messageLoop (main.go:193-222)

\* messageLoop returns err; its deferred pkgsBkt.Close() (main.go:206) runs.
LoopReturnError ==
    /\ loopErr' = "error"
    /\ loopFailures' = loopFailures + 1
    /\ pkgsBkt' = IF pkgsBkt = "open" THEN "closed" ELSE pkgsBkt
    /\ pc' = "main_check"

\* the process opens a client of the given store
OpenClient(store) ==
    /\ opened' = opened \cup {store}
    /\ reopened' = IF store \in opened THEN reopened \cup {store} ELSE reopened
    /\ runOpens' = IF store = "packages" THEN runOpens + 1 ELSE runOpens
    /\ jobClients' = IF store = "results" THEN jobClients + 1 ELSE jobClients

\* main.go:194, OpenSubscription succeeds
OpenSubscriptionOk ==
    /\ pc = "open_sub"
    /\ sub' = "open"
    /\ pc' = "open_bucket"
    /\ UNCHANGED <<mainVars, loopFailures, pkgsBkt, loopErr, handlerErr, handlerVars, worldVars,
                   uploaded, clientVars, delayVars>>

\* main.go:194-197, OpenSubscription fails
OpenSubscriptionErr ==
    /\ pc = "open_sub"
    /\ LoopReturnError
    /\ UNCHANGED <<mainVars, sub, handlerErr, handlerVars, worldVars, uploaded, clientVars, delayVars>>

\* main.go:199-200, no packages bucket is configured
SkipBucket ==
    /\ pc = "open_bucket"
    /\ packagesBucket = ""
    /\ pc' = "receive"
    /\ UNCHANGED <<mainVars, loopVars, handlerVars, worldVars, uploaded, clientVars, delayVars>>

\* main.go:200-206, blob.OpenBucket succeeds
OpenBucketOk ==
    /\ pc = "open_bucket"
    /\ packagesBucket # ""
    /\ pkgsBkt' = "open"
    /\ OpenClient("packages")
    /\ pc' = "receive"
    /\ UNCHANGED <<mainVars, loopFailures, sub, loopErr, handlerErr, handlerVars, worldVars,
                   uploaded, delayVars>>

\* main.go:202-205, blob.OpenBucket fails
OpenBucketErr ==
    /\ pc = "open_bucket"
    /\ packagesBucket # ""
    /\ LoopReturnError
    /\ UNCHANGED <<mainVars, sub, handlerErr, handlerVars, worldVars, uploaded, clientVars, delayVars>>

\* messageLoop opening the packages bucket for every message
ReceiveMsg_OpensBucket ==
    /\ pc = "receive"
    /\ \E m \in Messages : msg' = m
    /\ hResultsBucket' = resultsBucket
    /\ IF packagesBucket # "" THEN OpenClient("packages") ELSE UNCHANGED clientVars
    /\ pc' = "h_validate"
    /\ UNCHANGED <<mainVars, loopVars, acks, stageVars, pkg, sb,
                   phaseVars, hRet, defers, events, worldVars, uploaded, delayVars>>

\* main.go:211 and 217, Receive delivers a message and handleMessage is called
ReceiveMsg ==
    /\ pc = "receive"
    /\ \E m \in Messages : msg' = m
    /\ hResultsBucket' = resultsBucket
    /\ pc' = "h_validate"
    /\ UNCHANGED <<mainVars, loopVars, acks, stageVars, pkg, sb,
                   phaseVars, hRet, defers, events, worldVars, uploaded, clientVars, delayVars>>

\* main.go:211-215, Receive fails
ReceiveErr ==
    /\ pc = "receive"
    /\ sub' = "failed"
    /\ LoopReturnError
    /\ UNCHANGED <<mainVars, handlerErr, handlerVars, worldVars, uploaded, clientVars, delayVars>>

\* messageLoop returning the error of handleMessage instead of logging it
LoopHandlerReturned_Bail ==
    /\ pc = "loop_check"
    /\ IF handlerErr = "error"
         THEN LoopReturnError /\ UNCHANGED sub
         ELSE pc' = "receive" /\ UNCHANGED <<loopFailures, sub, pkgsBkt, loopErr>>
    /\ ClearFrame
    /\ UNCHANGED <<mainVars, handlerErr, worldVars, opened, reopened, runOpens, delayVars>>

\* messageLoop returning nil once a message has been handled without error
LoopHandlerReturned_ReturnNil ==
    /\ pc = "loop_check"
    /\ IF handlerErr = "nil"
         THEN /\ loopErr' = "nil"
              /\ pkgsBkt' = IF pkgsBkt = "open" THEN "closed" ELSE pkgsBkt
              /\ pc' = "main_check"
         ELSE pc' = "receive" /\ UNCHANGED <<pkgsBkt, loopErr>>
    /\ ClearFrame
    /\ UNCHANGED <<mainVars, loopFailures, sub, handlerErr, worldVars, opened, reopened,
                   runOpens, delayVars>>

\* messageLoop clearing main's retry counter after a message handled
\* without error
LoopHandlerReturned_ResetRetries ==
    /\ pc = "loop_check"
    /\ pc' = "receive"
    /\ retryCount' = IF handlerErr = "nil" THEN 0 ELSE retryCount
    /\ ClearFrame
    /\ UNCHANGED <<packagesBucket, resultsBucket, sleeps, loopRuns, loopVars,
                   worldVars, opened, reopened, runOpens, delayVars>>

\* main.go:217-221, handleMessage has returned: an error is logged, the
\* loop goes on to the next Receive and the handler's frame is gone.
LoopHandlerReturned ==
    /\ pc = "loop_check"
    /\ pc' = "receive"
    /\ ClearFrame
    /\ UNCHANGED <<mainVars, loopVars, worldVars, opened, reopened, runOpens, delayVars>>

\* ------------------------------------------------------------------------
\* handleMessage (main.go:37-191)

\* return r: the deferred calls run next, then control goes back to messageLoop
Return(r) ==
    /\ hRet' = r
    /\ pc' = "h_defers"

\* msg.Ack()
Ack ==
    /\ acks' = acks + 1
    /\ events' = Append(events, Ev("Ack", "", "ok"))

\* main.go:38-43
HDropEmptyName ==
    /\ pc = "h_validate"
    /\ msg.name = ""
    /\ Ack
    /\ Return("nil")
    /\ UNCHANGED <<mainVars, loopVars, msg, hResultsBucket, stageVars, pkg, sb,
                   phaseVars, defers, worldVars, uploaded, clientVars, delayVars>>

\* main.go:45-51
HDropEmptyEcosystem ==
    /\ pc = "h_validate"
    /\ msg.name # ""
    /\ msg.ecosystem = ""
    /\ Ack
    /\ Return("nil")
    /\ UNCHANGED <<mainVars, loopVars, msg, hResultsBucket, stageVars, pkg, sb,
                   phaseVars, defers, worldVars, uploaded, clientVars, delayVars>>

\* main.go:53-60
HDropUnsupported ==
    /\ pc = "h_validate"
    /\ msg.name # ""
    /\ msg.ecosystem # ""
    /\ Manager(msg.ecosystem) = "nil"
    /\ Ack
    /\ Return("nil")
    /\ UNCHANGED <<mainVars, loopVars, msg, hResultsBucket, stageVars, pkg, sb,
                   phaseVars, defers, worldVars, uploaded, clientVars, delayVars>>

\* handleMessage ignoring results_bucket_override (main.go:65-68)
HGotRequest_NoOverride ==
    /\ pc = "h_validate"
    /\ msg.name # ""
    /\ msg.ecosystem # ""
    /\ Manager(msg.ecosystem) # "nil"
    /\ localPkgPath' = <<>>
    /\ sbOpts' = << [opt |-> "Tag", arg |-> <<"imageTag">>] >>
    /\ pc' = IF msg.package_path # <<>> THEN "h_stage" ELSE "h_resolve"
    /\ UNCHANGED <<mainVars, loopVars, msg, acks, hResultsBucket, reader, tmpFile, pkg, sb,
                   phaseVars, hRet, defers, events, worldVars, uploaded, clientVars, delayVars>>

\* handleMessage without the check for an empty name (main.go:39-43)
HGotRequest_NoNameCheck ==
    /\ pc = "h_validate"
    /\ msg.ecosystem # ""
    /\ Manager(msg.ecosystem) # "nil"
    /\ hResultsBucket' = IF msg.results_bucket_override # ""
                            THEN msg.results_bucket_override
                            ELSE hResultsBucket
    /\ localPkgPath' = <<>>
    /\ sbOpts' = << [opt |-> "Tag", arg |-> <<"imageTag">>] >>
    /\ pc' = IF msg.package_path # <<>> THEN "h_stage" ELSE "h_resolve"
    /\ UNCHANGED <<mainVars, loopVars, msg, acks, hResultsBucket, reader, tmpFile, pkg, sb,
                   phaseVars, hRet, defers, events, worldVars, uploaded, clientVars, delayVars>>

\* main.go:62-83, a request for a supported ecosystem: the results bucket
\* override is applied and the sandbox options start with the image tag
HGotRequest ==
    /\ pc = "h_validate"
    /\ msg.name # ""
    /\ msg.ecosystem # ""
    /\ Manager(msg.ecosystem) # "nil"
    /\ hResultsBucket' = IF msg.results_bucket_override # ""
                            THEN msg.results_bucket_override
                            ELSE hResultsBucket
    /\ localPkgPath' = <<>>
    /\ sbOpts' = << [opt |-> "Tag", arg |-> <<"imageTag">>] >>
    /\ pc' = IF msg.package_path # <<>> THEN "h_stage" ELSE "h_resolve"
    /\ UNCHANGED <<mainVars, loopVars, msg, acks, reader, tmpFile, pkg, sb,
                   phaseVars, hRet, defers, events, worldVars, uploaded, clientVars, delayVars>>

\* main.go:84-86
HPackagesBucketNotSet ==
    /\ pc = "h_stage"
    /\ pkgsBkt = "nil"
    /\ Return("error")
    /\ UNCHANGED <<mainVars, loopVars, msg, acks, hResultsBucket, stageVars, pkg, sb,
                   phaseVars, defers, events, worldVars, uploaded, clientVars, delayVars>>

\* main.go:89-93, NewReader succeeds and r.Close is deferred
HNewReaderOk ==
    /\ pc = "h_stage"
    /\ pkgsBkt # "nil"
    /\ reader' = "open"
    /\ defers' = Append(defers, "r.Close")
    /\ events' = Append(events, Ev("NewReader", "", "ok"))
    /\ pc' = "h_tempfile"
    /\ UNCHANGED <<mainVars, loopVars, msg, acks, hResultsBucket, tmpFile, localPkgPath,
                   sbOpts, pkg, sb, phaseVars, hRet, worldVars, uploaded, clientVars, delayVars>>

\* main.go:89-92, NewReader fails
HNewReaderErr ==
    /\ pc = "h_stage"
    /\ pkgsBkt # "nil"
    /\ events' = Append(events, Ev("NewReader", "", "error"))
    /\ Return("error")
    /\ UNCHANGED <<mainVars, loopVars, msg, acks, hResultsBucket, stageVars, pkg, sb,
                   phaseVars, defers, worldVars, uploaded, clientVars, delayVars>>

\* ioutil.TempFile without the deferred os.Remove
HTempFileOk_NoDefer ==
    /\ pc = "h_tempfile"
    /\ tmpFile' = "open"
    /\ tempFiles' = tempFiles + 1
    /\ events' = Append(events, Ev("TempFile", "", "ok"))
    /\ pc' = "h_copy"
    /\ UNCHANGED <<mainVars, loopVars, msg, acks, hResultsBucket, reader, localPkgPath,
                   sbOpts, pkg, sb, phaseVars, hRet, defers, liveSandboxes, uploaded, clientVars, delayVars>>

\* main.go:95-99, the temporary file is created and its removal is deferred
HTempFileOk ==
    /\ pc = "h_tempfile"
    /\ tmpFile' = "open"
    /\ tempFiles' = tempFiles + 1
    /\ defers' = Append(defers, "os.Remove")
    /\ events' = Append(events, Ev("TempFile", "", "ok"))
    /\ pc' = "h_copy"
    /\ UNCHANGED <<mainVars, loopVars, msg, acks, hResultsBucket, reader, localPkgPath,
                   sbOpts, pkg, sb, phaseVars, hRet, liveSandboxes, uploaded, clientVars, delayVars>>

\* main.go:95-98, the temporary file cannot be created
HTempFileErr ==
    /\ pc = "h_tempfile"
    /\ events' = Append(events, Ev("TempFile", "", "error"))
    /\ Return("error")
    /\ UNCHANGED <<mainVars, loopVars, msg, acks, hResultsBucket, stageVars, pkg, sb,
                   phaseVars, defers, worldVars, uploaded, clientVars, delayVars>>

\* main.go:101, io.Copy succeeds
HCopyOk ==
    /\ pc = "h_copy"
    /\ events' = Append(events, Ev("Copy", "", "ok"))
    /\ pc' = "h_close"
    /\ UNCHANGED <<mainVars, loopVars, msg, acks, hResultsBucket, stageVars, pkg, sb,
                   phaseVars, hRet, defers, worldVars, uploaded, clientVars, delayVars>>

\* main.go:101-103, io.Copy fails
HCopyErr ==
    /\ pc = "h_copy"
    /\ events' = Append(events, Ev("Copy", "", "error"))
    /\ Return("error")
    /\ UNCHANGED <<mainVars, loopVars, msg, acks, hResultsBucket, stageVars, pkg, sb,
                   phaseVars, defers, worldVars, uploaded, clientVars, delayVars>>

\* main.go:105-110, f.Close succeeds; the staged file becomes a volume of
\* the sandbox under /local/<base name>
HCloseOk ==
    /\ pc = "h_close"
    /\ tmpFile' = "closed"
    /\ localPkgPath' = LocalPkgPath(msg.package_path)
    /\ sbOpts' = Append(sbOpts, [opt |-> "Volume", arg |-> <<"tmpfile">> \o LocalPkgPath(msg.package_path)])
    /\ events' = Append(events, Ev("Close", "", "ok"))
    /\ pc' = "h_resolve"
    /\ UNCHANGED <<mainVars, loopVars, msg, acks, hResultsBucket, reader, pkg, sb,
                   phaseVars, hRet, defers, worldVars, uploaded, clientVars, delayVars>>

\* main.go:105-107, f.Close fails
HCloseErr ==
    /\ pc = "h_close"
    /\ events' = Append(events, Ev("Close", "", "error"))
    /\ Return("error")
    /\ UNCHANGED <<mainVars, loopVars, msg, acks, hResultsBucket, stageVars, pkg, sb,
                   phaseVars, defers, worldVars, uploaded, clientVars, delayVars>>

\* main.go:115-116, the staged local file takes precedence
HResolveLocal ==
    /\ pc = "h_resolve"
    /\ localPkgPath # <<>>
    /\ pkg' = [kind |-> "local", name |-> msg.name, version |-> msg.version,
                path |-> localPkgPath]
    /\ pc' = "h_sandbox"
    /\ UNCHANGED <<mainVars, loopVars, msg, acks, hResultsBucket, stageVars, sb,
                   phaseVars, hRet, defers, events, worldVars, uploaded, clientVars, delayVars>>

\* main.go:117-118, an explicit version
HResolveVersion ==
    /\ pc = "h_resolve"
    /\ localPkgPath = <<>>
    /\ msg.version # ""
    /\ pkg' = [kind |-> "package", name |-> msg.name, version |-> msg.version,
                path |-> <<>>]
    /\ pc' = "h_sandbox"
    /\ UNCHANGED <<mainVars, loopVars, msg, acks, hResultsBucket, stageVars, sb,
                   phaseVars, hRet, defers, events, worldVars, uploaded, clientVars, delayVars>>

\* main.go:119-120, manager.Latest succeeds
HLatestOk ==
    /\ pc = "h_resolve"
    /\ localPkgPath = <<>>
    /\ msg.version = ""
    /\ pkg' = [kind |-> "latest", name |-> msg.name, version |-> "latest",
                path |-> <<>>]
    /\ events' = Append(events, Ev("Latest", msg.name, "ok"))
    /\ pc' = "h_sandbox"
    /\ UNCHANGED <<mainVars, loopVars, msg, acks, hResultsBucket, stageVars, sb,
                   phaseVars, hRet, defers, worldVars, uploaded, clientVars, delayVars>>

\* manager.Latest fails, and handleMessage goes on with a nil package
HLatestErr_Ignored ==
    /\ pc = "h_resolve"
    /\ localPkgPath = <<>>
    /\ msg.version = ""
    /\ events' = Append(events, Ev("Latest", msg.name, "error"))
    /\ pc' = "h_sandbox"
    /\ UNCHANGED <<mainVars, loopVars, msg, acks, hResultsBucket, stageVars, pkg, sb,
                   phaseVars, hRet, defers, worldVars, uploaded, clientVars, delayVars>>

\* main.go:119-127, manager.Latest fails
HLatestErr ==
    /\ pc = "h_resolve"
    /\ localPkgPath = <<>>
    /\ msg.version = ""
    /\ events' = Append(events, Ev("Latest", msg.name, "error"))
    /\ Return("error")
    /\ UNCHANGED <<mainVars, loopVars, msg, acks, hResultsBucket, stageVars, pkg, sb,
                   phaseVars, defers, worldVars, uploaded, clientVars, delayVars>>

\* the phase loop entered with finalStatus left at its zero value
StartPhases_NoDefault(ps) ==
    /\ phases' = ps
    /\ phaseIdx' = 1
    /\ results' = <<>>
    /\ finalStatus' = ""
    /\ lastPhase' = ""

\* the range loop of main.go:135 starts over the list DynamicPhases returned
StartPhases(ps) ==
    /\ phases' = ps
    /\ phaseIdx' = 1
    /\ results' = <<>>
    /\ finalStatus' = StatusCompleted
    /\ lastPhase' = ""

\* sandbox.New without the deferred sb.Clean
HSandboxNew_NoDefer ==
    /\ pc = "h_sandbox"
    /\ sb' = "alive"
    /\ liveSandboxes' = liveSandboxes + 1
    /\ events' = Append(events, Ev("sandbox.New", "", "ok"))
    /\ \E ps \in PhaseLists : StartPhases(ps)
    /\ pc' = "h_phase"
    /\ UNCHANGED <<mainVars, loopVars, msg, acks, hResultsBucket, stageVars, pkg,
                   logged, hRet, defers, tempFiles, uploaded, clientVars, delayVars>>

\* main.go:130-135, the sandbox is created, sb.Clean is deferred, and the
\* phase loop starts
HSandboxNew ==
    /\ pc = "h_sandbox"
    /\ sb' = "alive"
    /\ liveSandboxes' = liveSandboxes + 1
    /\ defers' = Append(defers, "sb.Clean")
    /\ events' = Append(events, Ev("sandbox.New", "", "ok"))
    /\ \E ps \in PhaseLists : StartPhases(ps)
    /\ pc' = "h_phase"
    /\ UNCHANGED <<mainVars, loopVars, msg, acks, hResultsBucket, stageVars, pkg,
                   logged, hRet, tempFiles, uploaded, clientVars, delayVars>>

\* results[phase] = result
PutResult(m, phase, st) ==
    [p \in (DOMAIN m) \cup {phase} |-> IF p = phase THEN st ELSE m[p]]

\* an error of analysis.Run recorded as a result of the phase instead of
\* being returned
HRunErr_Recorded ==
    /\ pc = "h_phase"
    /\ phaseIdx <= Len(phases)
    /\ events' = Append(events, Ev("Run", phases[phaseIdx], "error"))
    /\ results' = PutResult(results, phases[phaseIdx], StatusErrorOther)
    /\ finalStatus' = StatusErrorOther
    /\ lastPhase' = phases[phaseIdx]
    /\ pc' = "h_classify"
    /\ UNCHANGED <<mainVars, loopVars, msg, acks, hResultsBucket, stageVars, pkg, sb,
                   phases, phaseIdx, logged, hRet, defers, worldVars, uploaded,
                   clientVars, delayVars>>

\* main.go:136-145, analysis.Run fails for the current phase
HRunErr ==
    /\ pc = "h_phase"
    /\ phaseIdx <= Len(phases)
    /\ events' = Append(events, Ev("Run", phases[phaseIdx], "error"))
    /\ Return("error")
    /\ UNCHANGED <<mainVars, loopVars, msg, acks, hResultsBucket, stageVars, pkg, sb,
                   phaseVars, defers, worldVars, uploaded, clientVars, delayVars>>

\* the phase loop without the break on a status other than Completed
HRunResult_NoBreak ==
    /\ pc = "h_phase"
    /\ phaseIdx <= Len(phases)
    /\ \E st \in Statuses :
         /\ results' = PutResult(results, phases[phaseIdx], st)
         /\ finalStatus' = st
         /\ events' = Append(events, Ev("Run", phases[phaseIdx], st))
    /\ lastPhase' = phases[phaseIdx]
    /\ phaseIdx' = phaseIdx + 1
    /\ pc' = "h_phase"
    /\ UNCHANGED <<mainVars, loopVars, msg, acks, hResultsBucket, stageVars, pkg, sb,
                   phases, logged, hRet, defers, worldVars, uploaded, clientVars, delayVars>>

\* the phase loop with the condition of the break inverted
HRunResult_InvertedBreak ==
    /\ pc = "h_phase"
    /\ phaseIdx <= Len(phases)
    /\ \E st \in Statuses :
         /\ results' = PutResult(results, phases[phaseIdx], st)
         /\ finalStatus' = st
         /\ events' = Append(events, Ev("Run", phases[phaseIdx], st))
         /\ IF st = StatusCompleted
              THEN pc' = "h_classify" /\ UNCHANGED phaseIdx
              ELSE pc' = "h_phase" /\ phaseIdx' = phaseIdx + 1
    /\ lastPhase' = phases[phaseIdx]
    /\ UNCHANGED <<mainVars, loopVars, msg, acks, hResultsBucket, stageVars, pkg, sb,
                   phases, logged, hRet, defers, worldVars, uploaded, clientVars, delayVars>>

\* main.go:136-152, analysis.Run returns a result for the current phase
HRunResult ==
    /\ pc = "h_phase"
    /\ phaseIdx <= Len(phases)
    /\ \E st \in Statuses :
         /\ results' = PutResult(results, phases[phaseIdx], st)
         /\ finalStatus' = st
         /\ events' = Append(events, Ev("Run", phases[phaseIdx], st))
         /\ IF st # StatusCompleted
              THEN pc' = "h_classify" /\ UNCHANGED phaseIdx
              ELSE pc' = "h_phase" /\ phaseIdx' = phaseIdx + 1
    /\ lastPhase' = phases[phaseIdx]
    /\ UNCHANGED <<mainVars, loopVars, msg, acks, hResultsBucket, stageVars, pkg, sb,
                   phases, logged, hRet, defers, worldVars, uploaded, clientVars, delayVars>>

\* main.go:135 and 153, the range loop has gone through every phase
HPhasesDone ==
    /\ pc = "h_phase"
    /\ phaseIdx > Len(phases)
    /\ pc' = "h_classify"
    /\ UNCHANGED <<mainVars, loopVars, handlerVars, worldVars, uploaded, clientVars, delayVars>>

\* the log line of the switch of main.go:155-180
StatusLog(st) ==
    CASE st = StatusCompleted -> "Analysis completed sucessfully"
      [] st = StatusErrorAnalysis -> "Analysis error - analysis"
      [] st = StatusErrorTimeout -> "Analysis error - timeout"
      [] st = StatusErrorOther -> "Analysis error - other"
      [] OTHER -> ""

\* the final-status switch treating a status other than Completed as an
\* error of handleMessage
HClassify_FailOnError ==
    /\ pc = "h_classify"
    /\ logged' = StatusLog(finalStatus)
    /\ IF finalStatus # StatusCompleted
         THEN Return("error")
         ELSE pc' = "h_upload" /\ UNCHANGED hRet
    /\ UNCHANGED <<mainVars, loopVars, msg, acks, hResultsBucket, stageVars, pkg, sb,
                   phases, phaseIdx, results, finalStatus, lastPhase, defers,
                   events, worldVars, uploaded, clientVars, delayVars>>

\* main.go:155-180
HClassify ==
    /\ pc = "h_classify"
    /\ logged' = StatusLog(finalStatus)
    /\ pc' = "h_upload"
    /\ UNCHANGED <<mainVars, loopVars, msg, acks, hResultsBucket, stageVars, pkg, sb,
                   phases, phaseIdx, results, finalStatus, lastPhase, hRet, defers,
                   events, worldVars, uploaded, clientVars, delayVars>>

\* the orders in which a range over a map with the given keys may yield
\* them: Go does not specify the iteration order of a map
KeyOrders(keys) ==
    {o \in [1 .. Cardinality(keys) -> keys] :
        \A i, j \in 1 .. Cardinality(keys) : i # j => o[i] # o[j]}

\* main.go:183, resultstore.New(resultsBucket, ...).Save(ctx, pkg, results):
\* a client of the results store is made and Save is given the map results
SaveResults ==
    /\ OpenClient("results")
    /\ \E o \in KeyOrders(DOMAIN results) :
         uploaded' = [i \in 1 .. Len(o) |-> [phase |-> o[i], status |-> results[o[i]]]]

\* main.go:182, no results bucket: nothing is uploaded
HNoUpload ==
    /\ pc = "h_upload"
    /\ hResultsBucket = ""
    /\ pc' = "h_ack"
    /\ UNCHANGED <<mainVars, loopVars, handlerVars, worldVars, uploaded, clientVars, delayVars>>

\* main.go:182-187, Save succeeds
HSaveOk ==
    /\ pc = "h_upload"
    /\ hResultsBucket # ""
    /\ events' = Append(events, Ev("Save", hResultsBucket, "ok"))
    /\ pc' = "h_ack"
    /\ SaveResults
    /\ UNCHANGED <<mainVars, loopVars, msg, acks, hResultsBucket, stageVars, pkg, sb,
                   phaseVars, hRet, defers, worldVars, delayVars>>

\* Save fails and the message is acknowledged before the error is returned
HSaveErr_Ack ==
    /\ pc = "h_upload"
    /\ hResultsBucket # ""
    /\ acks' = acks + 1
    /\ events' = events \o <<Ev("Save", hResultsBucket, "error"), Ev("Ack", "", "ok")>>
    /\ Return("error")
    /\ SaveResults
    /\ UNCHANGED <<mainVars, loopVars, msg, hResultsBucket, stageVars, pkg, sb,
                   phaseVars, defers, worldVars, delayVars>>

\* main.go:182-186, Save fails
HSaveErr ==
    /\ pc = "h_upload"
    /\ hResultsBucket # ""
    /\ events' = Append(events, Ev("Save", hResultsBucket, "error"))
    /\ Return("error")
    /\ SaveResults
    /\ UNCHANGED <<mainVars, loopVars, msg, acks, hResultsBucket, stageVars, pkg, sb,
                   phaseVars, defers, worldVars, delayVars>>

\* main.go:189-190
HAck ==
    /\ pc = "h_ack"
    /\ Ack
    /\ Return("nil")
    /\ UNCHANGED <<mainVars, loopVars, msg, hResultsBucket, stageVars, pkg, sb,
                   phaseVars, defers, worldVars, uploaded, clientVars, delayVars>>

\* The effect of one deferred call (main.go:93, 99, 131).
RunDeferred(d) ==
    /\ events' = Append(events, Ev(d, "", "ok"))
    /\ sb' = IF d = "sb.Clean" THEN "cleaned" ELSE sb
    /\ liveSandboxes' = IF d = "sb.Clean" THEN liveSandboxes - 1 ELSE liveSandboxes
    /\ tempFiles' = IF d = "os.Remove" THEN tempFiles - 1 ELSE tempFiles
    /\ reader' = IF d = "r.Close" THEN "closed" ELSE reader

\* the deferred calls run in the order in which they were deferred
HRunDeferred_FIFO ==
    /\ pc = "h_defers"
    /\ defers # <<>>
    /\ RunDeferred(defers[1])
    /\ defers' = Tail(defers)
    /\ UNCHANGED <<pc, mainVars, loopVars, msg, acks, hResultsBucket, tmpFile,
                   localPkgPath, sbOpts, pkg, phaseVars, hRet, uploaded, clientVars, delayVars>>

\* handleMessage returns: the deferred calls run, last deferred first
HRunDeferred ==
    /\ pc = "h_defers"
    /\ defers # <<>>
    /\ RunDeferred(defers[Len(defers)])
    /\ defers' = SubSeq(defers, 1, Len(defers) - 1)
    /\ UNCHANGED <<pc, mainVars, loopVars, msg, acks, hResultsBucket, tmpFile,
                   localPkgPath, sbOpts, pkg, phaseVars, hRet, uploaded, clientVars, delayVars>>

\* every deferred call has run: control is back in messageLoop (main.go:217)
HReturned ==
    /\ pc = "h_defers"
    /\ defers = <<>>
    /\ handlerErr' = hRet
    /\ pc' = "loop_check"
    /\ UNCHANGED <<mainVars, loopFailures, sub, pkgsBkt, loopErr, handlerVars, worldVars,
                   uploaded, clientVars, delayVars>>

\* ------------------------------------------------------------------------
\* The worker

Next ==
    \/ MainCallLoop \/ MainLoopReturned \/ MainWake
    \/ OpenSubscriptionOk \/ OpenSubscriptionErr
    \/ SkipBucket \/ OpenBucketOk \/ OpenBucketErr
    \/ ReceiveMsg \/ ReceiveErr \/ LoopHandlerReturned
    \/ HDropEmptyName \/ HDropEmptyEcosystem \/ HDropUnsupported \/ HGotRequest
    \/ HPackagesBucketNotSet \/ HNewReaderOk \/ HNewReaderErr
    \/ HTempFileOk \/ HTempFileErr \/ HCopyOk \/ HCopyErr \/ HCloseOk \/ HCloseErr
    \/ HResolveLocal \/ HResolveVersion \/ HLatestOk \/ HLatestErr
    \/ HSandboxNew \/ HRunErr \/ HRunResult \/ HPhasesDone
    \/ HClassify \/ HNoUpload \/ HSaveOk \/ HSaveErr \/ HAck
    \/ HRunDeferred \/ HReturned

Spec == Init /\ [][Next]_vars

\* ------------------------------------------------------------------------
\* The backoff function on its own: two failure counts are drawn and
\* retryDelay is applied to both.

DelayInit ==
    /\ MainInit
    /\ dA \in 0 .. MaxDelayArg
    /\ dB \in 0 .. MaxDelayArg
    /\ dOut = <<>>

DelayApply ==
    /\ dOut = <<>>
    /\ dOut' = <<retryDelay(dA), retryDelay(dB)>>
    /\ UNCHANGED <<pc, mainVars, loopVars, handlerVars, worldVars, uploaded, clientVars,
                   dA, dB>>

DelayNext == DelayApply

DelaySpec == DelayInit /\ [][DelayNext]_vars

\* ------------------------------------------------------------------------
\* Vocabulary of the properties

\* handleMessage has returned and messageLoop has not yet gone on
Returned == pc = "loop_check"

\* control is inside handleMessage
InHandler ==
    pc \in {"h_validate", "h_stage", "h_tempfile", "h_copy", "h_close", "h_resolve",
            "h_sandbox", "h_phase", "h_classify", "h_upload", "h_ack", "h_defers"}

\* the message is one handleMessage drops: no name, no ecosystem, or an
\* ecosystem without a provider
Dropped(m) ==
    \/ m.name = ""
    \/ m.ecosystem = ""
    \/ Manager(m.ecosystem) = "nil"

\* the calls of the given operation made so far by this invocation
Calls(op) == SelectSeq(events, LAMBDA e : e.op = op)

\* the calls of analysis.Run made so far by this invocation
RunLog == Calls("Run")

\* ------------------------------------------------------------------------
\* C1: an invocation of handleMessage acknowledges its message exactly once
\* if it returns nil and not at all if it returns an error; the message is
\* never acknowledged twice.
C1_AckContract ==
    /\ acks <= 1
    /\ Len(Calls("Ack")) = acks
    /\ (InHandler \/ Returned) =>
         /\ hRet = "nil" => acks = 1
         /\ hRet = "error" => acks = 0
    /\ Returned => hRet \in {"nil", "error"}

\* a fully processed job (phases run, results uploaded) has returned nil
\* with its message acknowledged once
C1_Witness ==
    /\ Returned
    /\ hRet = "nil"
    /\ acks = 1
    /\ Len(RunLog) >= 2
    /\ Len(Calls("Save")) = 1

\* ------------------------------------------------------------------------
\* C2: a message without name, without ecosystem or with an unsupported
\* ecosystem is acknowledged and dropped: handleMessage returns nil and
\* makes no other call (no packages-store read, no temporary file, no
\* sandbox, no phase, no upload), whatever the other fields and the
\* configuration are.
C2_DropNoSideEffects ==
    ((InHandler \/ Returned) /\ Dropped(msg)) =>
        /\ \A i \in 1 .. Len(events) : events[i].op = "Ack"
        /\ reader = "none" /\ tmpFile = "none" /\ sb = "none"
        /\ tempFiles = 0 /\ liveSandboxes = 0
        /\ results = <<>> /\ defers = <<>>
        /\ hRet # "error"
        /\ Returned => (hRet = "nil" /\ acks = 1)

\* a message of an unsupported ecosystem that carries every other field,
\* with both buckets configured, has been dropped
C2_Witness ==
    /\ Returned
    /\ msg.name # "" /\ msg.ecosystem # "" /\ Manager(msg.ecosystem) = "nil"
    /\ msg.version # "" /\ msg.package_path # <<>> /\ msg.results_bucket_override # ""
    /\ pkgsBkt = "open" /\ resultsBucket # ""
    /\ acks = 1

\* ------------------------------------------------------------------------
\* C3: if phases p1..p(k-1) complete and phase pk returns a status other
\* than Completed, no later phase is run, finalStatus is pk's status,
\* lastPhase is pk and the result set has entries exactly for p1..pk.
C3_StopAtFirstFailure ==
    \A k \in 1 .. Len(RunLog) :
        ( /\ \A i \in 1 .. (k - 1) : RunLog[i].out = StatusCompleted
          /\ RunLog[k].out \in Statuses \ {StatusCompleted} )
        => /\ Len(RunLog) = k
           /\ \A i \in 1 .. k : RunLog[i].arg = phases[i]
           /\ finalStatus = RunLog[k].out
           /\ lastPhase = phases[k]
           /\ DOMAIN results = {phases[i] : i \in 1 .. k}
           /\ \A i \in 1 .. k : results[phases[i]] = RunLog[i].out

\* of three declared phases the first completed and the second timed out,
\* and the invocation has returned
C3_Witness ==
    /\ Returned
    /\ Len(phases) = 3
    /\ Len(RunLog) = 2
    /\ RunLog[1].out = StatusCompleted
    /\ RunLog[2].out = StatusErrorTimeout

\* ------------------------------------------------------------------------
\* C4: main leaves its loop after exactly maxRetries failures of
\* messageLoop: it has not exited while fewer have happened, and after the
\* maxRetries-th failure it neither sleeps nor calls messageLoop again.
C4_ExitAfterMaxRetries ==
    /\ pc = "exit" => (loopFailures = maxRetries /\ retryCount = maxRetries)
    /\ loopFailures >= maxRetries => pc \in {"main_check", "exit"}
    /\ loopFailures <= maxRetries
    /\ loopRuns <= maxRetries

\* the process has exited
C4_Witness ==
    /\ pc = "exit"
    /\ loopFailures = maxRetries
    /\ loopRuns = maxRetries

\* ------------------------------------------------------------------------
\* C5 as claimed: retryDelay(n+1) > retryDelay(n) for every n >= 0.
C5_StrictlyIncreasingFromZero ==
    (dOut # <<>> /\ dB = dA + 1) => dOut[2] > dOut[1]

\* C5 as amended: retryDelay(n+1) > retryDelay(n) for every n >= 1, while
\* retryDelay(0) = retryDelay(1) = 1, so that from n = 0 the backoff is only
\* non-decreasing.
C5_StrictlyIncreasingFromOne ==
    (dOut # <<>> /\ dB = dA + 1) =>
        IF dA >= 1 THEN dOut[2] > dOut[1]
                   ELSE dOut[1] = 1 /\ dOut[2] = 1

\* retryDelay has been applied to 5 and 6 and gave 7 and 11
C5_Witness ==
    /\ dA = 5 /\ dB = 6
    /\ dOut = <<7, 11>>

\* ------------------------------------------------------------------------
\* C6: the sleep that follows the n-th failure of messageLoop lasts
\* floor(1.5^n) seconds, the counter being incremented before the delay is
\* computed: 1, 2, 3, 5 for n = 1, 2, 3, 4.
ExpectedDelays == <<1, 2, 3, 5>>

C6_BackoffSequence ==
    /\ \A n \in 1 .. Len(sleeps) :
         n <= Len(ExpectedDelays) => sleeps[n] = ExpectedDelays[n]
    /\ pc = "sleep" => (Len(sleeps) = loopFailures /\ retryCount = loopFailures)

\* main sleeps after the fourth failure, having slept 1, 2, 3 and now 5 s
C6_Witness ==
    /\ pc = "sleep"
    /\ loopFailures = 4
    /\ sleeps = <<1, 2, 3, 5>>

\* the deferred calls still to run
Deferred == {defers[i] : i \in 1 .. Len(defers)}

\* some call of the operation returned the given outcome
Called(op, out) == \E i \in 1 .. Len(events) : events[i].op = op /\ events[i].out = out

\* ------------------------------------------------------------------------
\* C7: an error returned by handleMessage never ends messageLoop, which
\* goes on to another Receive on the same subscription; messageLoop ends
\* only when opening the subscription or the bucket, or Receive, fails, and
\* no Receive is made on a subscription whose Receive has failed.
C7_HandlerErrorKeepsLoop ==
    /\ [][ pc = "loop_check" =>
            /\ pc' = "receive"
            /\ sub = "open" /\ sub' = "open"
            /\ loopFailures' = loopFailures /\ loopErr' = loopErr ]_vars
    /\ [][ (loopFailures' # loopFailures \/ pc' = "main_check") =>
            /\ pc \in {"open_sub", "open_bucket", "receive"}
            /\ loopErr' = "error"
            /\ loopFailures' = loopFailures + 1 ]_vars
    /\ [](sub = "failed" => pc \in {"main_check", "sleep", "main_call", "exit"})
    /\ []((pc = "receive" \/ InHandler \/ Returned) => sub = "open")

\* messageLoop is at Receive again after handleMessage returned an error
C7_Witness ==
    /\ pc = "receive"
    /\ handlerErr = "error"
    /\ sub = "open"

\* ------------------------------------------------------------------------
\* C8: a sandbox created by handleMessage is cleaned before handleMessage
\* returns, on every path; at most one sandbox exists at any moment and
\* none exists outside handleMessage, in particular during Receive.
C8_SandboxTornDown ==
    /\ liveSandboxes \in {0, 1}
    /\ liveSandboxes = 1 <=> sb = "alive"
    /\ sb = "alive" => (InHandler /\ "sb.Clean" \in Deferred)
    /\ ~InHandler => liveSandboxes = 0
    /\ (Returned /\ Called("sandbox.New", "ok")) => (sb = "cleaned" /\ Called("sb.Clean", "ok"))

\* an invocation whose upload failed has returned with its sandbox cleaned
C8_Witness ==
    /\ Returned
    /\ hRet = "error"
    /\ Called("Save", "error")
    /\ sb = "cleaned"
    /\ liveSandboxes = 0

\* ------------------------------------------------------------------------
\* C9: a temporary file created by handleMessage is removed before
\* handleMessage returns, on every path after its creation; no staged file
\* exists once the handler has returned.
C9_TempFileRemoved ==
    /\ tempFiles \in {0, 1}
    /\ tempFiles = 1 => (InHandler /\ "os.Remove" \in Deferred)
    /\ ~InHandler => tempFiles = 0
    /\ (Returned /\ Called("TempFile", "ok")) => Called("os.Remove", "ok")

\* an invocation whose f.Close failed has returned with the file removed
C9_Witness ==
    /\ Returned
    /\ hRet = "error"
    /\ Called("TempFile", "ok")
    /\ Called("Close", "error")
    /\ Called("os.Remove", "ok")
    /\ tempFiles = 0

\* ------------------------------------------------------------------------
\* C10: when the latest-version lookup fails for a message without version
\* and package_path, handleMessage returns an error: the message is not
\* acknowledged, no sandbox is created, no phase is run, nothing is
\* uploaded.
C10_LatestFailureAborts ==
    Called("Latest", "error") =>
        /\ msg.version = "" /\ msg.package_path = <<>> /\ ~Dropped(msg)
        /\ hRet = "error"
        /\ acks = 0
        /\ sb = "none" /\ liveSandboxes = 0
        /\ Len(Calls("sandbox.New")) = 0
        /\ Len(RunLog) = 0
        /\ Len(Calls("Save")) = 0
        /\ Len(Calls("Ack")) = 0

\* the lookup failed and the invocation has returned
C10_Witness ==
    /\ Returned
    /\ Called("Latest", "error")
    /\ hRet = "error"
    /\ hResultsBucket # ""


\* the last call of analysis.Run returned a result whose status is not Completed
LastRunFailedStatus ==
    /\ Len(RunLog) >= 1
    /\ RunLog[Len(RunLog)].out \in Statuses \ {StatusCompleted}

\* ------------------------------------------------------------------------
\* C11: a last phase whose result has status ErrorAnalysis, ErrorTimeout or
\* ErrorOther is not an error of handleMessage: the status is logged, the
\* results are uploaded if a results bucket is set, and if that upload
\* succeeds, or no bucket is set, the message is acknowledged and nil is
\* returned, as for Completed.
C11_AnalysisErrorStillUploaded ==
    (LastRunFailedStatus /\ (pc \in {"h_upload", "h_ack", "h_defers"} \/ Returned)) =>
        /\ finalStatus = RunLog[Len(RunLog)].out
        /\ logged = StatusLog(finalStatus) /\ logged # ""
        /\ (pc \in {"h_ack", "h_defers"} \/ Returned) =>
             /\ hResultsBucket # "" => Len(Calls("Save")) = 1
             /\ hResultsBucket = "" => Len(Calls("Save")) = 0
        /\ (pc = "h_defers" \/ Returned) =>
             /\ ~Called("Save", "error") => (hRet = "nil" /\ acks = 1)
             /\ Called("Save", "error") => (hRet = "error" /\ acks = 0)

\* a job whose second phase ended with ErrorAnalysis was uploaded and
\* acknowledged
C11_Witness ==
    /\ Returned
    /\ Len(RunLog) = 2
    /\ RunLog[2].out = StatusErrorAnalysis
    /\ Called("Save", "ok")
    /\ hRet = "nil"
    /\ acks = 1


\* the results target of a job: the override of the message if it has one,
\* else the default of the process
EffectiveTarget == 
    IF msg.results_bucket_override # "" THEN msg.results_bucket_override ELSE resultsBucket

\* the phase loop was entered and no call of analysis.Run failed
PhaseLoopEndedOk ==
    /\ Called("sandbox.New", "ok")
    /\ ~Called("Run", "error")

\* ------------------------------------------------------------------------
\* C12: handleMessage attempts an upload exactly when the effective results
\* target is not empty and the phase loop ended without an error of
\* analysis.Run; the upload goes to that target; if it fails, handleMessage
\* returns an error and the message is not acknowledged.
C12_UploadIffTarget ==
    /\ Len(Calls("Save")) <= 1
    /\ \A i \in 1 .. Len(events) :
         events[i].op = "Save" => (events[i].arg = EffectiveTarget /\ PhaseLoopEndedOk)
    /\ Returned =>
         (Len(Calls("Save")) = 1 <=> (EffectiveTarget # "" /\ PhaseLoopEndedOk))
    /\ Called("Save", "error") => (hRet = "error" /\ acks = 0)

\* with no default bucket, the upload to the override of the message failed
C12_Witness ==
    /\ Returned
    /\ resultsBucket = ""
    /\ msg.results_bucket_override # ""
    /\ Called("Save", "error")
    /\ hRet = "error"
    /\ acks = 0


\* the phase loop is over (control is past main.go:153)
PhaseLoopOver ==
    \/ pc \in {"h_classify", "h_upload", "h_ack"}
    \/ (pc = "h_defers" \/ Returned) /\ logged # ""

\* ------------------------------------------------------------------------
\* C13: when every phase returns a result with status Completed, all the
\* declared phases are run, in the declared order; finalStatus is Completed,
\* lastPhase is the last declared phase and the result set has one entry
\* per declared phase.
C13_AllPhasesCompleted ==
    ( /\ PhaseLoopOver
      /\ \A i \in 1 .. Len(RunLog) : RunLog[i].out = StatusCompleted )
    => /\ Len(RunLog) = Len(phases)
       /\ \A i \in 1 .. Len(phases) : RunLog[i].arg = phases[i]
       /\ finalStatus = StatusCompleted
       /\ Len(phases) >= 1 => lastPhase = phases[Len(phases)]
       /\ DOMAIN results = {phases[i] : i \in 1 .. Len(phases)}
       /\ Cardinality(DOMAIN results) = Len(phases)
       /\ \A p \in DOMAIN results : results[p] = StatusCompleted

\* three declared phases have all completed
C13_Witness ==
    /\ Returned
    /\ Len(phases) = 3
    /\ Len(RunLog) = 3
    /\ \A i \in 1 .. 3 : RunLog[i].out = StatusCompleted
    /\ lastPhase = phases[3]


\* the results of the phases run so far, in the order they were run
ExecutionOrder ==
    [i \in 1 .. Len(RunLog) |-> [phase |-> RunLog[i].arg, status |-> RunLog[i].out]]

\* ------------------------------------------------------------------------
\* C14: the result set handed to Save is an ordered mapping whose entries
\* come in the order in which the phases were executed.
C14_UploadInExecutionOrder ==
    Len(Calls("Save")) = 1 => uploaded = ExecutionOrder


\* ------------------------------------------------------------------------
\* C15 as claimed: the process opens a client of the packages store and a
\* client of the results store at most once each.
C15_OpenedOncePerProcess ==
    reopened = {}

\* C15 as amended: a call of messageLoop opens the packages bucket at most
\* once, and exactly once when a bucket is configured, so again after every
\* restart; the bucket is open for every Receive and every job of that
\* call, and it is closed, never left open, once the call has returned to
\* main; an invocation of handleMessage makes one client of the results
\* store for each upload it attempts, at most one.
C15_OpenedOncePerRun ==
    /\ runOpens \in {0, 1}
    /\ (pc = "receive" \/ InHandler \/ Returned) =>
         /\ packagesBucket # "" => (runOpens = 1 /\ pkgsBkt = "open")
         /\ packagesBucket = "" => (runOpens = 0 /\ pkgsBkt = "nil")
    /\ pc \in {"open_sub", "open_bucket"} => (runOpens = 0 /\ pkgsBkt = "nil")
    /\ pc \in {"main_check", "sleep", "exit"} =>
         /\ pkgsBkt # "open"
         /\ runOpens = 1 => pkgsBkt = "closed"
         /\ runOpens = 0 => pkgsBkt = "nil"
    /\ pkgsBkt = "open" => runOpens = 1
    /\ "packages" \in reopened => loopRuns >= 2
    /\ jobClients \in {0, 1}
    /\ jobClients = Len(Calls("Save"))
    /\ ~(InHandler \/ Returned) => jobClients = 0

\* in the second call of messageLoop the packages bucket has been opened
\* again, once, and the job in progress has made its own client of the
\* results store, which an earlier job had also done
C15_Witness ==
    /\ loopRuns = 2
    /\ "packages" \in reopened
    /\ runOpens = 1 /\ pkgsBkt = "open"
    /\ "results" \in reopened
    /\ jobClients = 1

\* ------------------------------------------------------------------------
\* C16: if analysis.Run returns an error for a phase, handleMessage returns
\* an error: that phase gets no entry in the result set, lastPhase and
\* finalStatus keep the values of the phase before it (their initial values
\* if there is none), no later phase is run, nothing is logged or uploaded
\* and the message is not acknowledged.
C16_RunErrorAborts ==
    Called("Run", "error") =>
        LET k == Len(RunLog) IN
        /\ RunLog[k].out = "error"
        /\ RunLog[k].arg = phases[k]
        /\ \A i \in 1 .. (k - 1) : RunLog[i].out = StatusCompleted
        /\ DOMAIN results = {phases[i] : i \in 1 .. (k - 1)}
        /\ lastPhase = IF k = 1 THEN "" ELSE phases[k - 1]
        /\ finalStatus = StatusCompleted
        /\ hRet = "error"
        /\ logged = ""
        /\ Calls("Save") = <<>> /\ uploaded = <<>>
        /\ acks = 0

\* with a results bucket configured, the third phase failed to run after two
\* completed ones, and the invocation has returned
C16_Witness ==
    /\ Returned
    /\ hResultsBucket # ""
    /\ Len(RunLog) = 3
    /\ RunLog[3].out = "error"
    /\ DOMAIN results = {phases[1], phases[2]}


\* ------------------------------------------------------------------------
\* C17: retryCount starts at 0, goes up by exactly 1 when main finds that
\* messageLoop returned an error, and is changed by nothing else: it never
\* decreases, messages handled between two failures leave it alone, and it
\* is the number of failures of messageLoop so far, so that main exits
\* when maxRetries failures have happened in total.
C17_RetryCountOnlyGrows ==
    /\ retryCount = 0
    /\ [][ \/ retryCount' = retryCount
           \/ /\ retryCount' = retryCount + 1
              /\ pc = "main_check" /\ loopErr = "error" ]_vars
    /\ [][ (pc = "receive" \/ InHandler \/ Returned) => retryCount' = retryCount ]_vars
    /\ [](retryCount = IF pc = "main_check" THEN loopFailures - 1 ELSE loopFailures)
    /\ [](retryCount \in 0 .. maxRetries)
    /\ [](pc = "exit" <=> retryCount = maxRetries)

\* after nine failures messageLoop is at Receive again, the message before
\* having been handled without error, and the counter still stands at nine
C17_Witness ==
    /\ pc = "receive"
    /\ handlerErr = "nil"
    /\ retryCount = maxRetries - 1
    /\ loopFailures = maxRetries - 1


\* ------------------------------------------------------------------------
\* C18: for a job whose ecosystem declares no phase, handleMessage runs no
\* phase, the result set is empty, finalStatus is Completed and lastPhase
\* is empty; the status switch logs the completed line and does not fail;
\* the empty result set is uploaded exactly when a results bucket is
\* configured, and unless that upload fails the message is acknowledged
\* and handleMessage returns nil.
C18_NoPhases ==
    (Called("sandbox.New", "ok") /\ phases = <<>>) =>
        /\ RunLog = <<>>
        /\ results = <<>>
        /\ finalStatus = StatusCompleted
        /\ lastPhase = ""
        /\ pc \notin {"h_phase", "h_classify"} =>
             /\ logged = StatusLog(StatusCompleted)
             /\ hRet = "error" => Called("Save", "error")
        /\ (pc \in {"h_ack", "h_defers"} \/ Returned) =>
             /\ hResultsBucket # "" <=> Len(Calls("Save")) = 1
             /\ hResultsBucket = "" <=> Calls("Save") = <<>>
        /\ uploaded = <<>>
        /\ (Returned /\ ~Called("Save", "error")) => (hRet = "nil" /\ acks = 1)

\* a job without phases has returned nil after its empty result set was
\* uploaded and its message acknowledged
C18_Witness ==
    /\ Returned
    /\ Called("sandbox.New", "ok")
    /\ phases = <<>>
    /\ Called("Save", "ok")
    /\ uploaded = <<>>
    /\ hRet = "nil" /\ acks = 1


\* the places in the log of this invocation of the calls of the given
\* operation
Places(op) == {i \in 1 .. Len(events) : events[i].op = op}

\* ------------------------------------------------------------------------
\* C19: in an invocation that staged a package file and created a sandbox,
\* which mounts the file as a volume, the sandbox is cleaned before the
\* file is removed on every path: the file exists as long as the sandbox is
\* alive, both are gone when handleMessage has returned, and when it
\* returns nil both calls come after the Ack.
C19_CleanupInReverseOrder ==
    (Called("TempFile", "ok") /\ Called("sandbox.New", "ok")) =>
        /\ \E i \in 1 .. Len(sbOpts) : sbOpts[i].opt = "Volume"
        /\ sb = "alive" => tempFiles = 1
        /\ \A r \in Places("os.Remove") : \E c \in Places("sb.Clean") : c < r
        /\ \A c \in Places("sb.Clean") : \A n \in Places("sandbox.New") : n < c
        /\ hRet = "nil" =>
             \A d \in Places("sb.Clean") \cup Places("os.Remove") :
                 \E a \in Places("Ack") : a < d
        /\ Returned =>
             /\ Cardinality(Places("sb.Clean")) = 1
             /\ Cardinality(Places("os.Remove")) = 1
             /\ sb = "cleaned" /\ tempFiles = 0

\* a job with a staged file has returned nil: Ack, then sb.Clean, then
\* os.Remove
C19_Witness ==
    /\ Returned
    /\ hRet = "nil"
    /\ Called("TempFile", "ok")
    /\ Called("sandbox.New", "ok")
    /\ \E a \in Places("Ack") : \E c \in Places("sb.Clean") : \E r \in Places("os.Remove") :
         a < c /\ c < r


\* ------------------------------------------------------------------------
\* C20: messageLoop never returns nil, so main leaves a call of messageLoop
\* only by the failure path: after the return main either sleeps or exits,
\* messageLoop is called again only after a sleep, each call but the first
\* is preceded by exactly one sleep, and no sleep follows the last failure.
C20_RestartOnlyAfterSleep ==
    /\ [](loopErr \in {"none", "error"})
    /\ [](pc = "main_check" => loopErr = "error")
    /\ [][ pc = "main_check" => pc' \in {"sleep", "exit"} ]_vars
    /\ [][ pc' = "main_call" => pc = "sleep" ]_vars
    /\ [][ loopRuns' # loopRuns =>
            /\ loopRuns' = loopRuns + 1
            /\ pc = "main_call"
            /\ Len(sleeps) = loopRuns ]_vars
    /\ [][ Len(sleeps') # Len(sleeps) =>
            /\ Len(sleeps') = Len(sleeps) + 1
            /\ pc = "main_check" /\ pc' = "sleep" ]_vars
    /\ [](Len(sleeps) = IF pc \in {"sleep", "main_call"} THEN loopRuns ELSE loopRuns - 1)
    /\ [](pc = "exit" => (loopRuns = maxRetries /\ Len(sleeps) = maxRetries - 1))

\* the last call of messageLoop has started, after nine sleeps
C20_Witness ==
    /\ pc = "open_sub"
    /\ loopRuns = maxRetries
    /\ Len(sleeps) = maxRetries - 1

====
